---- MODULE Spec2Model ----
(***************************************************************************)
(* A model of src/CxxUtilities.hpp (namespace cxxutils):                   *)
(*   - constexpr_apply / detail::apply_helper, the bounded-domain          *)
(*     dispatcher (specification SpecApply);                               *)
(*   - ScopedReleaser / callAtEndOfScope (specification SpecReleaser);     *)
(*   - getOrCreate, the weak-reference singleton, run by one thread        *)
(*     (SpecSeq) and by two threads (SpecConc).                            *)
(***************************************************************************)
EXTENDS Integers, Sequences, FiniteSets

\* ------------------------------------------------------------------ bounds
\* Largest bound Max handed to constexpr_apply.
MaxN == 3
\* Largest constant a "const" handler returns, and largest captured payload.
MaxK == 2
\* Number of resource values handed to callAtEndOfScope.
MaxRes == 2
\* Number of ScopedReleaser objects constructed (by callAtEndOfScope or by copy).
MaxObj == 3
\* Handles to getOrCreate instances that the callers keep at once, in all.
MaxHandles == 2

VARIABLES
    \* ---- constexpr_apply: one call
    called,       \* TRUE once constexpr_apply has returned
    applyValue,   \* the runtime value the caller passes
    applyMax,     \* the bound Max the caller passes
    applyHandler, \* the handler as the caller supplies it
    result,       \* what the call returned
    invoked,      \* the handler instantiations run, in order: [c, cap]
    handlerAfter, \* captured state left in the caller's handler object
    \* ---- ScopedReleaser
    objs,         \* ScopedReleaser objects: id -> [st: unused/live/dead, what]
    acquired,     \* resource value -> TRUE once handed to callAtEndOfScope
    released,     \* resource value -> times the release action ran on it
    lastGet,      \* what the last get() / operator T() returned
    \* ---- getOrCreate
    weakInit,     \* the function-local static _weak: "no", "running", "done"
    weakPtr,      \* _weak, its pointer word: the object it points to
    weakCtrl,     \* _weak, its control-block word: the instance it observes
    pc,           \* activation -> position inside getOrCreate
    shared,       \* activation -> the local _shared
    locked,       \* activation -> the instance lock() on line 124 took a share of
    handles,      \* the handles the callers still hold, each <<object, owner>>
    crashed,      \* TRUE once undefined behaviour has aborted the process or
                  \* corrupted its heap; nothing is modelled beyond that point
    createdBy,    \* live instance -> "init" (line 120) or "reassign" (line 127)
    factoryCalls, \* activation -> factory invocations of its current / last call
    liveAtCall,   \* activation -> "live" / "none live": whether a live instance
                  \* existed when its current / last call began ("no call": none)
    gotExisting   \* activation -> TRUE iff its last call returned, on line 125, a
                  \* handle obtained from _weak without invoking the factory

applyVars == <<called, applyValue, applyMax, applyHandler, result, invoked, handlerAfter>>
relVars == <<objs, acquired, released, lastGet>>
gocVars == <<weakInit, weakPtr, weakCtrl, pc, shared, locked, handles, crashed,
             createdBy, factoryCalls, liveAtCall, gotExisting>>
vars == <<applyVars, relVars, gocVars>>

\* ======================================================================
\* constexpr_apply and detail::apply_helper
\* ======================================================================

\* The handler F. ret is the return type of its instantiation at constant 0:
\* "void", a plain value, or a std::optional. body is what it computes:
\*   "const"    returns the literal k
\*   "ordinal"  returns twice the constant it was instantiated for
\*   "captured" returns the size of a container it captured by value
\*   "none"     returns std::nullopt (optional handlers only)
\* cap is the captured state (size of the captured container, >= 1); capKind
\* tells what moving the closure does to it: "trivial" captures are copied by a
\* move, "owning" captures (std::vector, std::unique_ptr) are left empty.
Handlers ==
    { h \in [ret : {"void", "value", "optional"},
             body : {"const", "ordinal", "captured", "none"},
             k : 1..MaxK, cap : 1..MaxK, capKind : {"trivial", "owning"}] :
        /\ (h.body = "none") => (h.ret = "optional")
        /\ (h.ret = "void") => (h.body = "const" /\ h.k = 1) }

\* The runtime values of type E tried: the whole domain, Max itself, one
\* beyond, and a negative one.
Values == (-1)..(MaxN + 1)

\* std::optional<U>: absent, or present with a payload; bool results use flag only.
Absent == [flag |-> FALSE, payload |-> 0]
Present(x) == [flag |-> TRUE, payload |-> x]
Bool(b) == [flag |-> b, payload |-> 0]

\* line 30
hasVoidReturnType(h) == h.ret = "void"

\* line 34: "OurReturnType result;" is default-initialised. A std::optional
\* starts absent; a bool is left uninitialised, so its value is whatever the
\* build leaves there (u).
DefaultResult(h, u) == IF hasVoidReturnType(h) THEN Bool(u) ELSE Absent

\* line 36: "lambda = std::move(_lambda)" move-constructs the closure's copy of
\* the handler from the caller's handler: [obj: the new copy, src: what is left].
MoveHandler(kind, src) ==
    IF kind = "trivial" THEN [obj |-> src, src |-> src]
                        ELSE [obj |-> src, src |-> 0]

\* line 38: option = static_cast<E>(Is); Is < Max, and Max is an E, so the
\* cast keeps the value.
Option(i) == i

\* A faulty variant of the guard: "<=" for "==".
MatchesLE(hasValue, option, value) == (~hasValue) /\ option <= value

\* line 39
Matches(hasValue, option, value) == (~hasValue) /\ option = value

\* lines 42, 45: the handler instantiation for constant c, run on captured
\* state cap; what it returns (a void handler returns nothing: Absent).
Invoke(h, cap, c) ==
    LET v == CASE h.body = "const" -> h.k
               [] h.body = "ordinal" -> 2 * c
               [] h.body = "captured" -> cap
               [] OTHER -> 0
    IN  CASE h.ret = "void" -> Absent
          [] h.ret = "value" -> Present(v)
          [] OTHER -> IF h.body = "none" THEN Absent ELSE Present(v)

\* A faulty variant of the store: the result is left as it was.
StoreResultDropped(h, r, old) == old

\* A faulty variant of the store: whatever the handler returned is wrapped as present.
StoreResultWrapped(h, r, old) ==
    IF hasVoidReturnType(h) THEN Bool(TRUE) ELSE Present(r.payload)

\* lines 41-46: signal mode stores true; value mode assigns the returned
\* value to the std::optional (a returned optional is assigned as it is).
StoreResult(h, r, old) == IF hasVoidReturnType(h) THEN Bool(TRUE) ELSE r

\* A faulty variant of the index sequence: one constant too many.
IndexSequenceInclusive(Max) == [i \in 1..(Max + 1) |-> i - 1]

\* line 58: std::make_index_sequence<Max>: 0, 1, ..., Max-1
IndexSequence(Max) == [i \in 1..Max |-> i - 1]

\* lines 36-50, one element of the fold: build the closure for constant i
\* (moving the handler into it), then run it.
ScanStep(st, value, h, i) ==
    LET mv == MoveHandler(h.capKind, st.src)
        option == Option(i)
    IN  IF Matches(st.hasValue, option, value)
        THEN [result |-> StoreResult(h, Invoke(h, mv.obj, option), st.result),
              hasValue |-> TRUE,
              src |-> mv.src,
              invoked |-> Append(st.invoked, [c |-> option, cap |-> mv.obj])]
        ELSE [st EXCEPT !.src = mv.src]

\* lines 36-50: the fold over the index sequence, left to right.
RECURSIVE Scan(_, _, _, _)
Scan(st, value, h, Is) ==
    IF Is = <<>> THEN st
    ELSE Scan(ScanStep(st, value, h, Head(Is)), value, h, Tail(Is))

\* lines 27-53
apply_helper(value, h, Is, u) ==
    Scan([result |-> DefaultResult(h, u), hasValue |-> FALSE,
          src |-> h.cap, invoked |-> <<>>], value, h, Is)

\* lines 56-59: the call constexpr_apply(value, integral_constant<E, Max>, h)
\* on the arguments the caller holds. u is the indeterminate content of an
\* uninitialised bool.
constexpr_apply(value, Max, h, u) ==
    LET r == apply_helper(value, h, IndexSequence(Max), u)
    IN  /\ called' = TRUE
        /\ result' = r.result
        /\ invoked' = r.invoked
        /\ handlerAfter' = r.src
        /\ UNCHANGED <<applyValue, applyMax, applyHandler, relVars, gocVars>>

ConstexprApply ==
    /\ ~called
    /\ \E u \in BOOLEAN : constexpr_apply(applyValue, applyMax, applyHandler, u)

\* Whether the last call's value lies in [0, Max).
InDomain == 0 <= applyValue /\ applyValue < applyMax

\* ======================================================================
\* ScopedReleaser and callAtEndOfScope
\* ======================================================================

Resources == 1..MaxRes
ObjIds == 1..MaxObj

Unused == [st |-> "unused", what |-> 0]

\* lines 75, 85: callAtEndOfScope(what, lambda) returns the prvalue
\* ScopedReleaser<T, Lambda>(what, std::move(lambda)); the caller's object o
\* is initialised from it directly (no temporary is materialised and destroyed).
callAtEndOfScope(what, o) ==
    /\ ~acquired[what]
    /\ objs[o].st = "unused"
    /\ objs' = [objs EXCEPT ![o] = [st |-> "live", what |-> what]]
    /\ acquired' = [acquired EXCEPT ![what] = TRUE]
    /\ UNCHANGED <<released, lastGet, applyVars, gocVars>>

\* lines 74-82: the struct declares a destructor and no copy constructor, so
\* the implicit one copies both members: o2 holds the same value and action.
CopyReleaser(o, o2) ==
    /\ objs[o].st = "live"
    /\ objs[o2].st = "unused"
    /\ objs' = [objs EXCEPT ![o2] = [st |-> "live", what |-> objs[o].what]]
    /\ UNCHANGED <<acquired, released, lastGet, applyVars, gocVars>>

\* lines 74-82: nor does it declare a copy assignment operator, so (with an
\* assignable action: a function pointer, a Releaser<>, a captureless lambda)
\* "o2 = o" overwrites the members of o2: the value o2 held is forgotten, its
\* action is not run on it.
AssignReleaser(o, o2) ==
    /\ objs[o].st = "live"
    /\ objs[o2].st = "live"
    /\ objs' = [objs EXCEPT ![o2] = [st |-> "live", what |-> objs[o].what]]
    /\ UNCHANGED <<acquired, released, lastGet, applyVars, gocVars>>

\* line 77
get(o) ==
    /\ objs[o].st = "live"
    /\ lastGet' = [op |-> "get", what |-> objs[o].what]
    /\ UNCHANGED <<objs, acquired, released, applyVars, gocVars>>

\* line 78
operatorT(o) ==
    /\ objs[o].st = "live"
    /\ lastGet' = [op |-> "T", what |-> objs[o].what]
    /\ UNCHANGED <<objs, acquired, released, applyVars, gocVars>>

\* line 76: ~ScopedReleaser() runs lambda(what), at the end of o's scope.
DestroyReleaser(o) ==
    /\ objs[o].st = "live"
    /\ released' = [released EXCEPT ![objs[o].what] = @ + 1]
    /\ objs' = [objs EXCEPT ![o] = [st |-> "dead", what |-> objs[o].what]]
    /\ UNCHANGED <<acquired, lastGet, applyVars, gocVars>>

CallAtEndOfScope == \E what \in Resources, o \in ObjIds : callAtEndOfScope(what, o)
Copy == \E o \in ObjIds, o2 \in ObjIds : CopyReleaser(o, o2)
Assign == \E o \in ObjIds, o2 \in ObjIds : AssignReleaser(o, o2)
Get == \E o \in ObjIds : get(o)
Convert == \E o \in ObjIds : operatorT(o)
Destroy == \E o \in ObjIds : DestroyReleaser(o)

\* Live ScopedReleaser objects holding resource value w.
Holders(w) == {o \in ObjIds : objs[o].st = "live" /\ objs[o].what = w}

\* ======================================================================
\* getOrCreate
\* ======================================================================

\* The activations of getOrCreate that can be in progress at once. In SpecConc
\* they are the calls of two threads; in SpecSeq they are, on one thread, a
\* call (1) and a call that its factory makes (2).
Acts == {1, 2}

\* An empty std::shared_ptr / std::weak_ptr.
Null == 0

\* A pointer left behind to an instance that has been destroyed. Which
\* destroyed instance it was is not kept.
Gone == -1

\* Identities of live instances. A new instance takes an identity that no
\* live instance has; this many are enough for one to be free whenever the
\* factory runs.
Ids == 1..(MaxHandles + 2 * Cardinality(Acts) + 1)

\* What the factory returns: a pointer to a new object, or a null pointer.
FactoryResults == {"object", "null"}

\* A std::shared_ptr the caller holds: the object it points to and the
\* instance (control block) it owns a share of. The two differ only for a
\* handle put together from a torn read of _weak.
Handle(p, c) == <<p, c>>
Object(h) == h[1]
Owner(h) == h[2]

HandleSet == {handles[n] : n \in 1..Len(handles)}

\* The smart pointers of the program: _weak, the locals _shared and ptr of
\* every activation, the handles the callers hold.
Cur == [weakPtr |-> weakPtr, weakCtrl |-> weakCtrl, shared |-> shared,
        locked |-> locked, handles |-> handles]

\* use_count() > 0 for instance i, when the smart pointers are as in p: some
\* std::shared_ptr (a handle, a local _shared or a local ptr) owns it.
AliveIn(p, i) ==
    /\ i \in Ids
    /\ \/ \E t \in Acts : p.shared[t] = i \/ p.locked[t] = i
       \/ \E n \in 1..Len(p.handles) : Owner(p.handles[n]) = i

Alive(i) == AliveIn(Cur, i)

LiveInstances == {i \in Ids : Alive(i)}

LiveAtCall == IF LiveInstances # {} THEN "live" ELSE "none live"

\* The identity of the next instance.
FreshId ==
    LET free == {i \in Ids : ~Alive(i)}
    IN  CHOOSE i \in free : \A j \in free : i <= j

\* lines 120, 127: std::shared_ptr<Type>(factory(args...)): a new instance, or
\* an empty shared_ptr when the factory returned null.
Factory(f) == IF f = "object" THEN FreshId ELSE Null

\* line 124, _weak.lock(), first half: a share of the instance the control
\* word refers to, when some shared_ptr still owns it; else nothing.
Lock(c) == IF Alive(c) THEN c ELSE Null

\* A faulty variant of the guard of the static initialiser: no exclusion.
InitGuardOpen == weakInit \in {"no", "running"}

\* line 119: the initialiser of a function-local static runs once; another
\* thread arriving while it runs waits.
InitGuard == weakInit = "no"

\* The handles the callers hold are kept in order of instance (which of them
\* was returned first is of no consequence).
Before(a, b) == Owner(a) < Owner(b) \/ (Owner(a) = Owner(b) /\ Object(a) <= Object(b))

AddHandle(hs, h) ==
    LET lo == SelectSeq(hs, LAMBDA x : Before(x, h))
        hi == SelectSeq(hs, LAMBDA x : ~Before(x, h))
    IN  lo \o <<h>> \o hi

RECURSIVE Ordered(_)
Ordered(hs) == IF hs = <<>> THEN <<>> ELSE AddHandle(Ordered(Tail(hs)), Head(hs))

\* lines 125, 129: the caller keeps the shared_ptr it gets unless it is empty.
Keep(hs, h) == IF Object(h) = Null THEN hs ELSE Append(hs, h)

\* The smart pointers become as in p. An instance that no shared_ptr owns any
\* more is destroyed: the pointers to it that remain (in _weak, in a torn
\* handle) are dangling. Instance i, if there is one, was created on path how.
Commit(p, i, how) ==
    LET dangling(x) == IF x = Null \/ AliveIn(p, x) THEN x ELSE Gone
    IN  /\ weakPtr' = dangling(p.weakPtr)
        /\ weakCtrl' = dangling(p.weakCtrl)
        /\ shared' = p.shared
        /\ locked' = p.locked
        /\ handles' = Ordered([n \in 1..Len(p.handles) |->
                                  Handle(dangling(Object(p.handles[n])),
                                         Owner(p.handles[n]))])
        /\ createdBy' = [j \in Ids |-> IF ~AliveIn(p, j) THEN "none"
                                       ELSE IF j = i THEN how ELSE createdBy[j]]

\* The factory of activation t is running (lines 120, 127).
InFactory(t) == pc[t] \in {"init", "create"}

\* Activation t is between the two word writes of "_weak = _shared" (line 128).
Writing(t) == pc[t] \in {"assignCtrl", "assignPtr"}

\* Activation t is at, or in the middle of, an access to _weak (lines 124, 128).
Accessing(t) == pc[t] \in {"lock", "lockptr", "assign", "assignCtrl", "assignPtr"}

\* The process is gone (aborted, or running on with a corrupted heap): what
\* its objects are from here on is not defined, and nothing more is observed.
Abort ==
    /\ crashed' = TRUE
    /\ weakInit' = "no"
    /\ weakPtr' = Null
    /\ weakCtrl' = Null
    /\ pc' = [t \in Acts |-> "idle"]
    /\ shared' = [t \in Acts |-> Null]
    /\ locked' = [t \in Acts |-> Null]
    /\ handles' = <<>>
    /\ createdBy' = [i \in Ids |-> "none"]
    /\ factoryCalls' = [t \in Acts |-> 0]
    /\ liveAtCall' = [t \in Acts |-> "no call"]
    /\ gotExisting' = [t \in Acts |-> FALSE]
    /\ UNCHANGED <<applyVars, relVars>>

\* line 118: the call begins; _shared is empty. (A call begins only while the
\* handle it may return still fits the bound.)
Enter(t) ==
    /\ ~crashed
    /\ pc[t] = "idle"
    /\ Len(handles) + Cardinality({u \in Acts : pc[u] # "idle"}) < MaxHandles
    /\ pc' = [pc EXCEPT ![t] = "static"]
    /\ Commit([Cur EXCEPT !.shared[t] = Null], Null, "none")
    /\ UNCHANGED <<weakInit, crashed, applyVars, relVars>>

\* line 119: _weak is initialised already.
SkipInit(t) ==
    /\ ~crashed
    /\ pc[t] = "static"
    /\ weakInit = "done"
    /\ pc' = [pc EXCEPT ![t] = "lock"]
    /\ UNCHANGED <<weakInit, weakPtr, weakCtrl, shared, locked, handles, crashed,
                   createdBy, applyVars, relVars>>

\* line 119: this activation is the one to run the initialiser; it calls the
\* factory (line 120).
BeginInit(t) ==
    /\ ~crashed
    /\ pc[t] = "static"
    /\ InitGuard
    /\ weakInit' = "running"
    /\ pc' = [pc EXCEPT ![t] = "init"]
    /\ UNCHANGED <<weakPtr, weakCtrl, shared, locked, handles, crashed, createdBy,
                   applyVars, relVars>>

\* line 119, on the thread that is running the initialiser: the factory has
\* called getOrCreate, which reaches the static while it is being
\* initialised. The behaviour is undefined; the build aborts the process
\* (std::terminate after __gnu_cxx::recursive_init_error), or hangs there.
RecursiveInit(t) ==
    /\ ~crashed
    /\ pc[t] = "static"
    /\ weakInit = "running"
    /\ Abort

\* lines 120-122: the factory returns; the initialiser stores the instance in
\* _shared and constructs _weak from it.
RunInit(t, f) ==
    /\ ~crashed
    /\ pc[t] = "init"
    /\ weakInit' = "done"
    /\ pc' = [pc EXCEPT ![t] = "lock"]
    /\ LET s == Factory(f)
       IN  Commit([Cur EXCEPT !.shared[t] = s, !.weakPtr = s, !.weakCtrl = s], s, "init")
    /\ UNCHANGED <<crashed, applyVars, relVars>>

\* line 124, _weak.lock(), first half: read the control word and take a share
\* of the instance if it is still owned.
LockCtrl(t) ==
    /\ ~crashed
    /\ pc[t] = "lock"
    /\ pc' = [pc EXCEPT ![t] = "lockptr"]
    /\ Commit([Cur EXCEPT !.locked[t] = Lock(weakCtrl)], Null, "none")
    /\ UNCHANGED <<weakInit, crashed, applyVars, relVars>>

\* lines 124-125, second half: with a share taken, read the pointer word; ptr
\* is not null and the call returns it.
LockPtrReturn(t) ==
    /\ ~crashed
    /\ pc[t] = "lockptr"
    /\ locked[t] # Null /\ weakPtr # Null
    /\ pc' = [pc EXCEPT ![t] = "idle"]
    /\ Commit([Cur EXCEPT !.handles = Keep(@, Handle(weakPtr, locked[t])),
                          !.locked[t] = Null,
                          !.shared[t] = Null], Null, "none")
    /\ UNCHANGED <<weakInit, crashed, applyVars, relVars>>

\* line 124: ptr is null (no share taken, or a null pointer word); ptr is
\* destroyed and the call goes on to line 127, calling the factory.
LockPtrFail(t) ==
    /\ ~crashed
    /\ pc[t] = "lockptr"
    /\ locked[t] = Null \/ weakPtr = Null
    /\ pc' = [pc EXCEPT ![t] = "create"]
    /\ Commit([Cur EXCEPT !.locked[t] = Null], Null, "none")
    /\ UNCHANGED <<weakInit, crashed, applyVars, relVars>>

\* line 127: the factory returns and _shared takes the instance.
Create(t, f) ==
    /\ ~crashed
    /\ pc[t] = "create"
    /\ pc' = [pc EXCEPT ![t] = "assign"]
    /\ LET s == Factory(f)
       IN  Commit([Cur EXCEPT !.shared[t] = s], s, "reassign")
    /\ UNCHANGED <<weakInit, crashed, applyVars, relVars>>

\* line 128, _weak = _shared: the first of the two words is written (the
\* assignment is not atomic and the order of the two stores is the build's).
AssignFirst(t, word) ==
    /\ ~crashed
    /\ pc[t] = "assign"
    /\ IF word = "ptr"
       THEN /\ pc' = [pc EXCEPT ![t] = "assignCtrl"]
            /\ Commit([Cur EXCEPT !.weakPtr = shared[t]], Null, "none")
       ELSE /\ pc' = [pc EXCEPT ![t] = "assignPtr"]
            /\ Commit([Cur EXCEPT !.weakCtrl = shared[t]], Null, "none")
    /\ UNCHANGED <<weakInit, crashed, applyVars, relVars>>

\* lines 128-129: the other word is written; return _shared.
AssignReturn(t) ==
    /\ ~crashed
    /\ Writing(t)
    /\ pc' = [pc EXCEPT ![t] = "idle"]
    /\ LET h == Handle(shared[t], shared[t])
       IN  IF pc[t] = "assignCtrl"
           THEN Commit([Cur EXCEPT !.weakCtrl = shared[t],
                                   !.handles = Keep(@, h),
                                   !.shared[t] = Null], Null, "none")
           ELSE Commit([Cur EXCEPT !.weakPtr = shared[t],
                                   !.handles = Keep(@, h),
                                   !.shared[t] = Null], Null, "none")
    /\ UNCHANGED <<weakInit, crashed, applyVars, relVars>>

\* lines 124, 128 on two threads: an access to _weak while another thread is
\* in the middle of writing it is a data race. Besides reading or leaving a
\* mix of the two words (the steps above), it can release the old control
\* block twice, use it after it was freed, or lose a reference so that an
\* instance is never destroyed: the process aborts or goes on with a
\* corrupted heap.
Crash(t) ==
    /\ ~crashed
    /\ Accessing(t)
    /\ \E u \in Acts \ {t} : Writing(u)
    /\ Abort

\* A caller drops the n-th handle (the shared_ptr is destroyed).
ReleaseHandle(n) ==
    /\ ~crashed
    /\ n \in 1..Len(handles)
    /\ Commit([Cur EXCEPT !.handles = SubSeq(@, 1, n - 1) \o SubSeq(@, n + 1, Len(@))],
              Null, "none")
    /\ UNCHANGED <<weakInit, pc, crashed, factoryCalls, liveAtCall, gotExisting,
                   applyVars, relVars>>

\* One step of getOrCreate (lines 115-130) by activation t.
getOrCreate(t) ==
    \/ Enter(t)
    \/ SkipInit(t)
    \/ BeginInit(t)
    \/ \E f \in FactoryResults : RunInit(t, f)
    \/ LockCtrl(t)
    \/ LockPtrReturn(t)
    \/ LockPtrFail(t)
    \/ \E f \in FactoryResults : Create(t, f)
    \/ \E word \in {"ptr", "ctrl"} : AssignFirst(t, word)
    \/ AssignReturn(t)

\* ---- one thread. Code of the thread runs at top level, or inside a factory
\* that getOrCreate has called; a call made from inside the factory of
\* activation 1 is activation 2, and activation 1 goes on when it has returned.
Running(t) ==
    /\ (t - 1 \in Acts) => InFactory(t - 1)
    /\ (t + 1 \in Acts) => pc[t + 1] = "idle"

\* What a call did, kept for the properties of single calls: how many times it
\* has invoked the factory (lines 120, 127), whether an instance was live when
\* it began (line 118), and whether it returned the handle it found without
\* having invoked the factory (line 125).
Observe(t) ==
    /\ factoryCalls' = [factoryCalls EXCEPT ![t] =
                            IF pc[t] = "idle" THEN 0
                            ELSE IF InFactory(t) THEN @ + 1 ELSE @]
    /\ liveAtCall' = [liveAtCall EXCEPT ![t] = IF pc[t] = "idle" THEN LiveAtCall ELSE @]
    /\ gotExisting' = [gotExisting EXCEPT ![t] =
                            IF pc[t] = "idle" THEN FALSE
                            ELSE IF pc[t] = "lockptr" /\ pc'[t] = "idle"
                                 THEN factoryCalls[t] = 0 ELSE @]

SeqGetOrCreate == \E t \in Acts : Running(t) /\ getOrCreate(t) /\ Observe(t)

SeqRecursiveInit == \E t \in Acts : Running(t) /\ RecursiveInit(t)

SeqRelease ==
    /\ \A t \in Acts : pc[t] = "idle" \/ InFactory(t)
    /\ \E n \in 1..MaxHandles : ReleaseHandle(n)

\* ---- two threads, one activation each, with no coordination.
ThreadGetOrCreate ==
    /\ \E t \in Acts : getOrCreate(t)
    /\ UNCHANGED <<factoryCalls, liveAtCall, gotExisting>>

ThreadCrash == \E t \in Acts : Crash(t)

ThreadRelease == \E n \in 1..MaxHandles : ReleaseHandle(n)

\* ======================================================================
\* specifications
\* ======================================================================

\* ScopedReleaser and getOrCreate before anything has run.
InitOthers ==
    /\ objs = [o \in ObjIds |-> Unused]
    /\ acquired = [w \in Resources |-> FALSE]
    /\ released = [w \in Resources |-> 0]
    /\ lastGet = [op |-> "none", what |-> 0]
    /\ weakInit = "no"
    /\ weakPtr = Null
    /\ weakCtrl = Null
    /\ pc = [t \in Acts |-> "idle"]
    /\ shared = [t \in Acts |-> Null]
    /\ locked = [t \in Acts |-> Null]
    /\ handles = <<>>
    /\ crashed = FALSE
    /\ createdBy = [i \in Ids |-> "none"]
    /\ factoryCalls = [t \in Acts |-> 0]
    /\ liveAtCall = [t \in Acts |-> "no call"]
    /\ gotExisting = [t \in Acts |-> FALSE]

\* The caller is about to call constexpr_apply on some value, bound and handler.
InitApply ==
    /\ called = FALSE
    /\ applyValue \in Values
    /\ applyMax \in 0..MaxN
    /\ applyHandler \in Handlers
    /\ result = Absent
    /\ invoked = <<>>
    /\ handlerAfter = applyHandler.cap
    /\ InitOthers

Init ==
    /\ called = FALSE
    /\ applyValue = 0
    /\ applyMax = 0
    /\ applyHandler = [ret |-> "void", body |-> "const", k |-> 1, cap |-> 1,
                       capKind |-> "trivial"]
    /\ result = Absent
    /\ invoked = <<>>
    /\ handlerAfter = 1
    /\ InitOthers

NextApply == ConstexprApply
SpecApply == InitApply /\ [][NextApply]_vars

NextReleaser == CallAtEndOfScope \/ Copy \/ Assign \/ Get \/ Convert \/ Destroy
SpecReleaser == Init /\ [][NextReleaser]_vars

NextSeq == SeqGetOrCreate \/ SeqRecursiveInit \/ SeqRelease
SpecSeq == Init /\ [][NextSeq]_vars

NextConc == ThreadGetOrCreate \/ ThreadCrash \/ ThreadRelease
SpecConc == Init /\ [][NextConc]_vars

\* ======================================================================
\* properties of constexpr_apply (SpecApply)
\* ======================================================================

\* C1: for a value in [0, Max) one call runs the handler exactly once, and the
\* instantiation run is the one for the constant equal to the value.
C1_ExactlyOneMatchingInstantiation ==
    (called /\ InDomain) =>
        /\ Len(invoked) = 1
        /\ invoked[1].c = applyValue

\* C1 witness: a match in the middle of the scan (constants before and after it).
C1_Witness ==
    /\ called /\ InDomain
    /\ applyValue >= 1 /\ applyValue + 1 < applyMax
    /\ Len(invoked) = 1 /\ invoked[1].c = applyValue

\* C2: for a value in [0, Max) a void handler yields true and a handler
\* returning the constant k yields present(k).
C2_InDomainResult ==
    (called /\ InDomain) =>
        /\ (applyHandler.ret = "void") => (result = Bool(TRUE))
        /\ (applyHandler.ret = "value" /\ applyHandler.body = "const")
              => (result = Present(applyHandler.k))

\* C2 witness: a constant-returning handler dispatched on a later constant.
C2_Witness ==
    /\ called /\ InDomain /\ applyValue >= 1
    /\ applyHandler.ret = "value" /\ applyHandler.body = "const"
    /\ applyHandler.k = MaxK
    /\ result = Present(MaxK)

\* C3: in signal mode a value outside [0, Max) never runs the handler and the
\* call returns exactly false.
C3_SignalModeOutOfDomainFalse ==
    (called /\ applyHandler.ret = "void" /\ ~InDomain) =>
        /\ invoked = <<>>
        /\ result = Bool(FALSE)

\* C4: in value mode a value outside [0, Max) never runs the handler and the
\* returned optional is absent.
C4_ValueModeOutOfDomainAbsent ==
    (called /\ applyHandler.ret # "void" /\ ~InDomain) =>
        /\ invoked = <<>>
        /\ result = Absent

\* C4 witness: value == Max with a non-empty domain, value mode.
C4_Witness ==
    /\ called /\ applyHandler.ret = "value"
    /\ applyMax >= 1 /\ applyValue = applyMax
    /\ invoked = <<>> /\ result = Absent

\* C5 as stated: in value mode the result is present iff the handler was run.
C5_PresentIffDispatched ==
    (called /\ applyHandler.ret # "void") =>
        /\ (invoked # <<>>) <=> InDomain
        /\ result.flag <=> (invoked # <<>>)

\* C5 amended: in value mode the handler is run iff the value is in [0, Max),
\* and the result is present iff the handler was run and did not itself return
\* an absent optional; a dispatched handler returning an absent optional gives
\* the same absent result as no dispatch.
C5_PresentIffDispatchedWithValue ==
    (called /\ applyHandler.ret # "void") =>
        /\ (invoked # <<>>) <=> InDomain
        /\ result.flag <=>
              (invoked # <<>> /\ ~(applyHandler.ret = "optional" /\ applyHandler.body = "none"))
        /\ (invoked # <<>> /\ applyHandler.ret = "optional" /\ applyHandler.body = "none")
              => (result = Absent)

\* C5 witness: a dispatched handler that returned an absent optional.
C5_Witness ==
    /\ called /\ InDomain /\ invoked # <<>>
    /\ applyHandler.ret = "optional" /\ applyHandler.body = "none"
    /\ result = Absent

\* C9: the handler instantiation that runs sees the captured state the caller
\* supplied, whatever the position of the matching constant in the scan.
C9_HandlerStateUnchanged ==
    (called /\ invoked # <<>>) => (invoked[1].cap = applyHandler.cap)

\* ======================================================================
\* properties of ScopedReleaser (SpecReleaser)
\* ======================================================================

\* C6: the release action runs on a held value exactly once: never twice, and
\* once every releaser holding the value has reached the end of its scope it
\* has run.
C6_ReleasedExactlyOnce ==
    \A w \in Resources :
        /\ released[w] <= 1
        /\ (acquired[w] /\ Holders(w) = {}) => (released[w] = 1)

\* ======================================================================
\* properties of getOrCreate on one thread (SpecSeq)
\* ======================================================================

\* The objects the callers hold handles to.
HeldInstances == {Object(h) : h \in HandleSet}

\* C7: a call invokes the factory iff no live instance existed when it began;
\* otherwise it returns a handle to the existing instance; all handles live at
\* the same time refer to one instance.
C7_FactoryIffNoLiveInstance ==
    /\ \A t \in Acts :
          (pc[t] = "idle" /\ liveAtCall[t] # "no call") =>
              /\ (factoryCalls[t] >= 1) <=> (liveAtCall[t] = "none live")
              /\ (liveAtCall[t] = "live") => gotExisting[t]
    /\ Cardinality(HeldInstances) <= 1

\* C10: one call of getOrCreate invokes the factory at most once.
C10_FactoryAtMostOncePerCall ==
    \A t \in Acts : factoryCalls[t] <= 1

\* ======================================================================
\* properties of getOrCreate on two threads (SpecConc)
\* ======================================================================

\* C8: only the static initialiser is guarded: at most one thread runs it, and
\* an instance it created never coexists with another one; two live instances
\* at once both come from the unsynchronised lock / create / reassign sequence.
C8_OnlyInitializerGuarded ==
    /\ Cardinality({t \in Acts : pc[t] = "init"}) <= 1
    /\ \A i \in LiveInstances, j \in LiveInstances :
          (i # j) => (createdBy[i] = "reassign" /\ createdBy[j] = "reassign")

\* C8 witness: both threads have returned, the callers hold handles to two
\* distinct live instances, and both instances were created on line 127.
C8_Witness ==
    /\ ~crashed /\ weakInit = "done"
    /\ \A t \in Acts : pc[t] = "idle"
    /\ Len(handles) = 2
    /\ \A n \in 1..2 : Object(handles[n]) = Owner(handles[n])
    /\ Object(handles[1]) # Object(handles[2])
    /\ \A n \in 1..2 : Alive(Object(handles[n])) /\ createdBy[Object(handles[n])] = "reassign"

====
